---- MODULE Spec2Model ----
(***************************************************************************)
(* A model of the CHIP-8 interpreter of src/chip8.c: the machine record    *)
(* chip8_t, init_chip8, handle_input, emulate_instruction, update_timers   *)
(* and the main loop that drives them.                                     *)
(*                                                                         *)
(* Unsigned C integers keep their width (uint8_t: % 256, uint16_t:         *)
(* % 65536).  stack_ptr is modelled as the slot offset of the C pointer    *)
(* from &stack[0].  An access outside an array is undefined behaviour: a   *)
(* read yields a value chosen by the oracle "ub", a write is dropped or    *)
(* lands in the adjacent member, and the model does not follow the         *)
(* program past the instruction that performed it.                         *)
(***************************************************************************)
EXTENDS Integers, Sequences, FiniteSets, TLC

VARIABLES
    rom_file,   \* the bytes of the ROM file named on the command line
    chip8,      \* the chip8_t machine object of main
    sdl_events, \* SDL's event queue, read by SDL_PollEvent
    pc,         \* position of main: "start", "poll", "emulate", "timers", "cleanup",
                \* "exited"
    i,          \* the counter of main's instruction loop
    posted,     \* how many events the user has produced so far
    hist,       \* the machine before each of the last instructions, newest first
    acc,        \* the array slots the last instruction read or wrote
    last        \* the operation performed last

vars == <<rom_file, chip8, sdl_events, pc, i, posted, hist, acc, last>>

----------------------------------------------------------------------------
(* Bounds of the model *)

\* how many user events one run produces
MaxEvents == 2
\* how many earlier machine states hist keeps
HistLen == 2

----------------------------------------------------------------------------
(* Program constants *)

RAM_SIZE == 4096
DISPLAY_SIZE == 2048
STACK_SIZE == 12
NUM_REGS == 16
NUM_KEYS == 16
entry_point == 512
UINT8 == 256
UINT16 == 65536

\* set_config_from_args: the defaults (no argument overrides them)
config ==
    [window_width |-> 64, window_height |-> 32, inst_per_second |-> 500]

font ==
    << 240, 144, 144, 144, 240,     \* 0
        32,  96,  32,  32, 112,     \* 1
       240,  16, 240, 128, 240,     \* 2
       240,  16, 240,  16, 240,     \* 3
       144, 144, 240,  16,  16,     \* 4
       240, 128, 240,  16, 240,     \* 5
       240, 128, 240, 144, 240,     \* 6
       240,  16,  32,  64,  64,     \* 7
       240, 144, 240, 144, 240,     \* 8
       240, 144, 240,  16, 240,     \* 9
       240, 144, 240, 144, 144,     \* A
       224, 144, 224, 144, 224,     \* B
       240, 128, 128, 128, 240,     \* C
       224, 144, 144, 144, 224,     \* D
       240, 128, 240, 128, 240,     \* E
       240, 128, 240, 128, 128 >>   \* F

----------------------------------------------------------------------------
(* Bit operations on unsigned values *)

RECURSIVE BitAnd(_, _)
BitAnd(a, b) ==
    IF a = 0 \/ b = 0 THEN 0
    ELSE (a % 2) * (b % 2) + 2 * BitAnd(a \div 2, b \div 2)

RECURSIVE BitOr(_, _)
BitOr(a, b) ==
    IF a = 0 THEN b
    ELSE IF b = 0 THEN a
    ELSE (IF a % 2 = 1 \/ b % 2 = 1 THEN 1 ELSE 0) + 2 * BitOr(a \div 2, b \div 2)

RECURSIVE BitXor(_, _)
BitXor(a, b) ==
    IF a = 0 THEN b
    ELSE IF b = 0 THEN a
    ELSE (IF a % 2 # b % 2 THEN 1 ELSE 0) + 2 * BitXor(a \div 2, b \div 2)

----------------------------------------------------------------------------
(* init_chip8 *)

\* the instruction record filled by emulate_instruction from an opcode
decode(opcode) ==
    [opcode |-> opcode,
     NNN |-> opcode % \h1000,
     NN  |-> opcode % \h100,
     N   |-> opcode % \h10,
     X   |-> (opcode \div \h100) % \h10,
     Y   |-> (opcode \div \h10) % \h10]

\* init_chip8 without its last lines, which set the defaults of the machine
init_chip8_no_defaults(rom) ==
    [state       |-> "QUIT",
     ram         |-> [a \in 0..(RAM_SIZE - 1) |->
                        IF a < Len(font) THEN font[a + 1]
                        ELSE IF a >= entry_point /\ a - entry_point < Len(rom)
                             THEN rom[a - entry_point + 1]
                        ELSE 0],
     display     |-> [p \in 0..(DISPLAY_SIZE - 1) |-> FALSE],
     stack       |-> [s \in 0..(STACK_SIZE - 1) |-> 0],
     stack_ptr   |-> 0,
     V           |-> [r \in 0..(NUM_REGS - 1) |-> 0],
     I           |-> 0,
     PC          |-> 0,
     delay_timer |-> 0,
     sound_timer |-> 0,
     keypad      |-> [k \in 0..(NUM_KEYS - 1) |-> FALSE],
     inst        |-> decode(0)]

\* chip8_t chip8 = {0}; init_chip8(&chip8, rom_name), for a ROM file whose
\* bytes are rom (1 .. RAM_SIZE - entry_point of them)
init_chip8(rom) ==
    [state       |-> "RUNNING",
     ram         |-> [a \in 0..(RAM_SIZE - 1) |->
                        IF a < Len(font) THEN font[a + 1]
                        ELSE IF a >= entry_point /\ a - entry_point < Len(rom)
                             THEN rom[a - entry_point + 1]
                        ELSE 0],
     display     |-> [p \in 0..(DISPLAY_SIZE - 1) |-> FALSE],
     stack       |-> [s \in 0..(STACK_SIZE - 1) |-> 0],
     stack_ptr   |-> 0,
     V           |-> [r \in 0..(NUM_REGS - 1) |-> 0],
     I           |-> 0,
     PC          |-> entry_point,
     delay_timer |-> 0,
     sound_timer |-> 0,
     keypad      |-> [k \in 0..(NUM_KEYS - 1) |-> FALSE],
     inst        |-> decode(0)]

----------------------------------------------------------------------------
(* Undefined behaviour *)

\* the values an out-of-bounds read may yield
OobBytes == {0, 1, 238}
OobWords == {0, 514, 4660}

\* The outcomes of the out-of-bounds accesses of one instruction: byte and
\* word are what a read of ram[] or of a stack slot yields, key what a read
\* of keypad[] yields, and alias tells whether a write past ram[4095] lands
\* in display[], the member that follows ram[] in chip8_t.
Undefined == [byte : OobBytes, word : OobWords, key : BOOLEAN, alias : BOOLEAN]

NoUb == [byte |-> 0, word |-> 0, key |-> FALSE, alias |-> FALSE]

\* chip8->ram[a] as an rvalue
ram_read(c, a, ub) ==
    IF a \in 0..(RAM_SIZE - 1) THEN c.ram[a] ELSE ub.byte

\* chip8->ram[a] = v
ram_write(c, a, v, ub) ==
    IF a \in 0..(RAM_SIZE - 1) THEN [c EXCEPT !.ram[a] = v]
    ELSE IF ub.alias /\ a - RAM_SIZE \in 0..(DISPLAY_SIZE - 1)
         THEN [c EXCEPT !.display[a - RAM_SIZE] = (v # 0)]
    ELSE c

----------------------------------------------------------------------------
(* emulate_instruction: the opcodes *)

\* 00E0: memset(&chip8->display[0], false, sizeof chip8->display)
exec_00E0(c) ==
    [c EXCEPT !.display = [p \in 0..(DISPLAY_SIZE - 1) |-> FALSE]]

\* 00EE: chip8->PC = *--chip8->stack_ptr
exec_00EE(c, ub) ==
    LET sp == c.stack_ptr - 1
    IN [c EXCEPT !.stack_ptr = sp,
                 !.PC = IF sp \in 0..(STACK_SIZE - 1) THEN c.stack[sp] ELSE ub.word]

\* exec_2NNN pushing the address of the call instead of the address after it
exec_2NNN_own_address(c) ==
    LET sp == c.stack_ptr
    IN [c EXCEPT !.stack = IF sp \in 0..(STACK_SIZE - 1)
                           THEN [@ EXCEPT ![sp] = c.PC - 2] ELSE @,
                 !.stack_ptr = sp + 1,
                 !.PC = c.inst.NNN]

\* 2NNN: *chip8->stack_ptr++ = chip8->PC; chip8->PC = chip8->inst.NNN
exec_2NNN(c) ==
    LET sp == c.stack_ptr
    IN [c EXCEPT !.stack = IF sp \in 0..(STACK_SIZE - 1)
                           THEN [@ EXCEPT ![sp] = c.PC] ELSE @,
                 !.stack_ptr = sp + 1,
                 !.PC = c.inst.NNN]

\* PC += 2 when the condition of a skip opcode holds
skip_if(c, cond) ==
    IF cond THEN [c EXCEPT !.PC = (c.PC + 2) % UINT16] ELSE c

\* 8XY4: the flag is stored first, then VX += VY reads the registers again
exec_8XY4(c) ==
    LET X == c.inst.X
        Y == c.inst.Y
        c1 == [c EXCEPT !.V[15] = IF c.V[X] + c.V[Y] > 255 THEN 1 ELSE 0]
    IN [c1 EXCEPT !.V[X] = (c1.V[X] + c1.V[Y]) % UINT8]

\* 8XY5
exec_8XY5(c) ==
    LET X == c.inst.X
        Y == c.inst.Y
        c1 == [c EXCEPT !.V[15] = IF c.V[X] >= c.V[Y] THEN 1 ELSE 0]
    IN [c1 EXCEPT !.V[X] = (c1.V[X] + UINT8 - c1.V[Y]) % UINT8]

\* 8XY6
exec_8XY6(c) ==
    LET X == c.inst.X
        c1 == [c EXCEPT !.V[15] = c.V[X] % 2]
    IN [c1 EXCEPT !.V[X] = c1.V[X] \div 2]

\* 8XY7
exec_8XY7(c) ==
    LET X == c.inst.X
        Y == c.inst.Y
        c1 == [c EXCEPT !.V[15] = IF c.V[X] <= c.V[Y] THEN 1 ELSE 0]
    IN [c1 EXCEPT !.V[X] = (c1.V[Y] + UINT8 - c1.V[X]) % UINT8]

\* exec_8XYE keeping the bit shifted out of the 8 bits of VX
exec_8XYE_wide(c) ==
    LET X == c.inst.X
        c1 == [c EXCEPT !.V[15] = (c.V[X] \div 128) % 2]
    IN [c1 EXCEPT !.V[X] = c1.V[X] * 2]

\* 8XYE
exec_8XYE(c) ==
    LET X == c.inst.X
        c1 == [c EXCEPT !.V[15] = (c.V[X] \div 128) % 2]
    IN [c1 EXCEPT !.V[X] = (c1.V[X] * 2) % UINT8]

\* 8XYN: switch (chip8->inst.N)
exec_8XYN(c) ==
    LET X == c.inst.X
        Y == c.inst.Y
        N == c.inst.N
    IN CASE N = 0 -> [c EXCEPT !.V[X] = c.V[Y]]
         [] N = 1 -> [c EXCEPT !.V[X] = BitOr(c.V[X], c.V[Y])]
         [] N = 2 -> [c EXCEPT !.V[X] = BitAnd(c.V[X], c.V[Y])]
         [] N = 3 -> [c EXCEPT !.V[X] = BitXor(c.V[X], c.V[Y])]
         [] N = 4 -> exec_8XY4(c)
         [] N = 5 -> exec_8XY5(c)
         [] N = 6 -> exec_8XY6(c)
         [] N = 7 -> exec_8XY7(c)
         [] N = 14 -> exec_8XYE(c)
         [] OTHER -> c

\* draw_bits with a sprite that wraps to the left edge instead of stopping
\* at the right edge
RECURSIVE draw_bits_wrap(_, _, _, _, _, _)
draw_bits_wrap(c, cfg, sprite_data, X_coord, Y_coord, j) ==
    LET p == Y_coord * cfg.window_width + X_coord
        pixel == c.display[p]
        sprite_bit == (sprite_data \div (2 ^ j)) % 2 = 1
        c1 == [c EXCEPT !.V[15] = IF sprite_bit /\ pixel THEN 1 ELSE @,
                        !.display[p] = (pixel # sprite_bit)]
    IN IF j = 0 THEN c1
       ELSE draw_bits_wrap(c1, cfg, sprite_data,
                           (X_coord + 1) % cfg.window_width, Y_coord, j - 1)

\* draw_bits with the sprite bit OR-ed into the pixel instead of XOR-ed
RECURSIVE draw_bits_or(_, _, _, _, _, _)
draw_bits_or(c, cfg, sprite_data, X_coord, Y_coord, j) ==
    LET p == Y_coord * cfg.window_width + X_coord
        pixel == c.display[p]
        sprite_bit == (sprite_data \div (2 ^ j)) % 2 = 1
        c1 == [c EXCEPT !.V[15] = IF sprite_bit /\ pixel THEN 1 ELSE @,
                        !.display[p] = (pixel \/ sprite_bit)]
    IN IF X_coord + 1 >= cfg.window_width \/ j = 0 THEN c1
       ELSE draw_bits_or(c1, cfg, sprite_data, X_coord + 1, Y_coord, j - 1)

\* DXYN, the inner loop: bits j..0 of sprite_data, from column X_coord of
\* row Y_coord; it stops at the right edge of the screen
RECURSIVE draw_bits(_, _, _, _, _, _)
draw_bits(c, cfg, sprite_data, X_coord, Y_coord, j) ==
    LET p == Y_coord * cfg.window_width + X_coord
        pixel == c.display[p]
        sprite_bit == (sprite_data \div (2 ^ j)) % 2 = 1
        c1 == [c EXCEPT !.V[15] = IF sprite_bit /\ pixel THEN 1 ELSE @,
                        !.display[p] = (pixel # sprite_bit)]
    IN IF X_coord + 1 >= cfg.window_width \/ j = 0 THEN c1
       ELSE draw_bits(c1, cfg, sprite_data, X_coord + 1, Y_coord, j - 1)

\* DXYN, the outer loop: rows r..N-1 of the sprite, from row Y_coord; it
\* stops at the bottom edge of the screen
RECURSIVE draw_rows(_, _, _, _, _, _)
draw_rows(c, cfg, ub, orig_X, Y_coord, r) ==
    IF r >= c.inst.N THEN c
    ELSE LET sprite_data == ram_read(c, c.I + r, ub)
             c1 == draw_bits(c, cfg, sprite_data, orig_X, Y_coord, 7)
         IN IF Y_coord + 1 >= cfg.window_height THEN c1
            ELSE draw_rows(c1, cfg, ub, orig_X, Y_coord + 1, r + 1)

\* exec_DXYN without the reset of VF before the sprite is drawn
exec_DXYN_flag_kept(c, cfg, ub) ==
    LET X_coord == c.V[c.inst.X] % cfg.window_width
        Y_coord == c.V[c.inst.Y] % cfg.window_height
    IN draw_rows(c, cfg, ub, X_coord, Y_coord, 0)

\* DXYN
exec_DXYN(c, cfg, ub) ==
    LET X_coord == c.V[c.inst.X] % cfg.window_width
        Y_coord == c.V[c.inst.Y] % cfg.window_height
    IN draw_rows([c EXCEPT !.V[15] = 0], cfg, ub, X_coord, Y_coord, 0)

\* chip8->keypad[chip8->V[chip8->inst.X]] as an rvalue
key_read(c, ub) ==
    LET k == c.V[c.inst.X]
    IN IF k \in 0..(NUM_KEYS - 1) THEN c.keypad[k] ELSE ub.key

\* EX9E, EXA1
exec_EXNN(c, ub) ==
    CASE c.inst.NN = \h9E -> skip_if(c, key_read(c, ub))
      [] c.inst.NN = \hA1 -> skip_if(c, ~key_read(c, ub))
      [] OTHER -> c

\* first_key scanning for the highest pressed key instead of the lowest
RECURSIVE last_key(_, _)
last_key(c, k) ==
    IF k >= NUM_KEYS THEN NUM_KEYS
    ELSE LET above == last_key(c, k + 1)
         IN IF above < NUM_KEYS THEN above
            ELSE IF c.keypad[k] THEN k
            ELSE NUM_KEYS

\* FX0A, the scan of the keypad from key k upward
RECURSIVE first_key(_, _)
first_key(c, k) ==
    IF k >= NUM_KEYS THEN NUM_KEYS
    ELSE IF c.keypad[k] THEN k
    ELSE first_key(c, k + 1)

\* exec_FX0A releasing the key it has stored in VX
exec_FX0A_release(c) ==
    LET k == first_key(c, 0)
    IN IF k < NUM_KEYS THEN [c EXCEPT !.V[c.inst.X] = k, !.keypad[k] = FALSE]
       ELSE [c EXCEPT !.PC = (c.PC + UINT16 - 2) % UINT16]

\* FX0A
exec_FX0A(c) ==
    LET k == first_key(c, 0)
    IN IF k < NUM_KEYS THEN [c EXCEPT !.V[c.inst.X] = k]
       ELSE [c EXCEPT !.PC = (c.PC + UINT16 - 2) % UINT16]

\* exec_FX33 with the ones at I and the hundreds at I + 2
exec_FX33_reversed(c, ub) ==
    LET bcd == c.V[c.inst.X]
        c1 == ram_write(c, c.I, bcd % 10, ub)
        c2 == ram_write(c1, c.I + 1, (bcd \div 10) % 10, ub)
    IN ram_write(c2, c.I + 2, (bcd \div 10) \div 10, ub)

\* FX33
exec_FX33(c, ub) ==
    LET bcd == c.V[c.inst.X]
        c1 == ram_write(c, c.I + 2, bcd % 10, ub)
        c2 == ram_write(c1, c.I + 1, (bcd \div 10) % 10, ub)
    IN ram_write(c2, c.I, (bcd \div 10) \div 10, ub)

\* reg_dump with the loop test i < X
RECURSIVE reg_dump_below(_, _, _)
reg_dump_below(c, ub, k) ==
    IF k >= c.inst.X THEN c
    ELSE reg_dump_below(ram_write(c, c.I + k, c.V[k], ub), ub, k + 1)

\* FX55, the loop from register k
RECURSIVE reg_dump(_, _, _)
reg_dump(c, ub, k) ==
    IF k > c.inst.X THEN c
    ELSE reg_dump(ram_write(c, c.I + k, c.V[k], ub), ub, k + 1)

\* FX65, the loop from register k
RECURSIVE reg_load(_, _, _)
reg_load(c, ub, k) ==
    IF k > c.inst.X THEN c
    ELSE reg_load([c EXCEPT !.V[k] = ram_read(c, c.I + k, ub)], ub, k + 1)

\* exec_FXNN with the opcodes that read a timer or add to I counting the
\* delay timer down
exec_FXNN_ticking(c, ub) ==
    LET X == c.inst.X
        NN == c.inst.NN
        t == [c EXCEPT !.delay_timer = IF @ > 0 THEN @ - 1 ELSE @]
    IN CASE NN = \h0A -> exec_FX0A(c)
         [] NN = \h1E -> [t EXCEPT !.I = (c.I + c.V[X]) % UINT16]
         [] NN = \h07 -> [t EXCEPT !.V[X] = c.delay_timer]
         [] NN = \h15 -> [c EXCEPT !.delay_timer = c.V[X]]
         [] NN = \h18 -> [c EXCEPT !.sound_timer = c.V[X]]
         [] NN = \h29 -> [c EXCEPT !.I = c.V[X] * 5]
         [] NN = \h33 -> exec_FX33(c, ub)
         [] NN = \h55 -> reg_dump(c, ub, 0)
         [] NN = \h65 -> reg_load(c, ub, 0)
         [] OTHER -> c

\* FXNN: switch (chip8->inst.NN)
exec_FXNN(c, ub) ==
    LET X == c.inst.X
        NN == c.inst.NN
    IN CASE NN = \h0A -> exec_FX0A(c)
         [] NN = \h1E -> [c EXCEPT !.I = (c.I + c.V[X]) % UINT16]
         [] NN = \h07 -> [c EXCEPT !.V[X] = c.delay_timer]
         [] NN = \h15 -> [c EXCEPT !.delay_timer = c.V[X]]
         [] NN = \h18 -> [c EXCEPT !.sound_timer = c.V[X]]
         [] NN = \h29 -> [c EXCEPT !.I = c.V[X] * 5]
         [] NN = \h33 -> exec_FX33(c, ub)
         [] NN = \h55 -> reg_dump(c, ub, 0)
         [] NN = \h65 -> reg_load(c, ub, 0)
         [] OTHER -> c

\* the switch on the top four bits of the opcode; rnd is rand()
execute(c, cfg, rnd, ub) ==
    LET op == (c.inst.opcode \div \h1000) % \h10
        X == c.inst.X
        Y == c.inst.Y
        NN == c.inst.NN
        NNN == c.inst.NNN
    IN CASE op = 0 -> (IF NN = \hE0 THEN exec_00E0(c)
                       ELSE IF NN = \hEE THEN exec_00EE(c, ub)
                       ELSE c)
         [] op = 1 -> [c EXCEPT !.PC = NNN]
         [] op = 2 -> exec_2NNN(c)
         [] op = 3 -> skip_if(c, c.V[X] = NN)
         [] op = 4 -> skip_if(c, c.V[X] # NN)
         [] op = 5 -> skip_if(c, c.V[X] = c.V[Y])
         [] op = 6 -> [c EXCEPT !.V[X] = NN]
         [] op = 7 -> [c EXCEPT !.V[X] = (c.V[X] + NN) % UINT8]
         [] op = 8 -> exec_8XYN(c)
         [] op = 9 -> skip_if(c, c.V[X] # c.V[Y])
         [] op = 10 -> [c EXCEPT !.I = NNN]
         [] op = 11 -> [c EXCEPT !.PC = c.V[0] + NNN]
         [] op = 12 -> [c EXCEPT !.V[X] = BitAnd(rnd % 256, NN)]
         [] op = 13 -> exec_DXYN(c, cfg, ub)
         [] op = 14 -> exec_EXNN(c, ub)
         [] OTHER -> exec_FXNN(c, ub)

\* the opcode fetched at PC: (ram[PC] << 8) | ram[PC+1]
fetch(c, ub) ==
    ram_read(c, c.PC, ub) * 256 + ram_read(c, c.PC + 1, ub)

\* emulate_instruction(&chip8, config)
emulate_instruction(c, cfg, rnd, ub) ==
    LET f == [c EXCEPT !.inst = decode(fetch(c, ub)),
                       !.PC = (c.PC + 2) % UINT16]
    IN execute(f, cfg, rnd, ub)

\* print_debug_info(chip8) of a build with DEBUG defined, called with the
\* opcode decoded and PC already advanced. Besides printing, its switch
\* clears the display (NN = 0xE0 under 0), pops the stack (NN = 0xEE under
\* 0), pushes PC and jumps (2NNN) and stores rand() % 256 & NN in VX (CXNN);
\* every other case only prints. rnd is its own call of rand().
print_debug_info(c, rnd, ub) ==
    LET op == (c.inst.opcode \div \h1000) % \h10
        NN == c.inst.NN
    IN CASE op = 0 -> (IF NN = \hE0 THEN exec_00E0(c)
                       ELSE IF NN = \hEE THEN exec_00EE(c, ub)
                       ELSE c)
         [] op = 2 -> exec_2NNN(c)
         [] op = 12 -> [c EXCEPT !.V[c.inst.X] = BitAnd(rnd % 256, NN)]
         [] OTHER -> c

\* emulate_instruction(&chip8, config) of a build with DEBUG defined: the
\* fetch, print_debug_info, then the switch
emulate_instruction_debug(c, cfg, rnd_debug, rnd, ub) ==
    LET f == [c EXCEPT !.inst = decode(fetch(c, ub)),
                       !.PC = (c.PC + 2) % UINT16]
    IN execute(print_debug_info(f, rnd_debug, ub), cfg, rnd, ub)

----------------------------------------------------------------------------
(* The array slots an instruction touches *)

\* the instruction emulate_instruction decodes at PC (both bytes inside ram[])
inst_at(c) == decode(c.ram[c.PC] * 256 + c.ram[c.PC + 1])

\* the rows of a sprite DXYN reads: the row loop ends at the bottom edge
rows_read(c, cfg, inst) ==
    LET Y_coord == c.V[inst.Y] % cfg.window_height
        left == cfg.window_height - Y_coord
    IN IF inst.N < left THEN inst.N ELSE left

\* The indices emulate_instruction uses, from the machine c before it:
\* ram[] (the fetch, DXYN, FX33, FX55, FX65), stack[] (00EE, 2NNN) and
\* keypad[] (EX9E, EXA1), as the C expressions compute them.
accesses(c, cfg) ==
    LET fetched == {c.PC, c.PC + 1}
    IN IF ~(fetched \subseteq 0..(RAM_SIZE - 1))
       THEN [ram |-> fetched, stack |-> {}, keypad |-> {}]
       ELSE LET inst == inst_at(c)
                op == inst.opcode \div \h1000
            IN [ram |-> fetched \cup
                    (CASE op = 13 ->
                            {c.I + r : r \in 0..(rows_read(c, cfg, inst) - 1)}
                       [] op = 15 /\ inst.NN = \h33 -> {c.I, c.I + 1, c.I + 2}
                       [] op = 15 /\ inst.NN \in {\h55, \h65} ->
                            {c.I + r : r \in 0..inst.X}
                       [] OTHER -> {}),
                stack |->
                    (CASE op = 0 /\ inst.NN = \hEE -> {c.stack_ptr - 1}
                       [] op = 2 -> {c.stack_ptr}
                       [] OTHER -> {}),
                keypad |->
                    (IF op = 14 /\ inst.NN \in {\h9E, \hA1}
                     THEN {c.V[inst.X]} ELSE {})]

\* the indices emulate_instruction uses in a build with DEBUG defined: 00EE
\* and 2NNN use a second stack slot, in print_debug_info
accesses_debug(c, cfg) ==
    LET a == accesses(c, cfg)
        op == inst_at(c).opcode \div \h1000
    IN IF ~({c.PC, c.PC + 1} \subseteq 0..(RAM_SIZE - 1)) THEN a
       ELSE [a EXCEPT !.stack =
                CASE op = 0 /\ inst_at(c).NN = \hEE ->
                        {c.stack_ptr - 1, c.stack_ptr - 2}
                  [] op = 2 -> {c.stack_ptr, c.stack_ptr + 1}
                  [] OTHER -> @]

\* every access stays inside its array
in_bounds(a) ==
    /\ a.ram \subseteq 0..(RAM_SIZE - 1)
    /\ a.stack \subseteq 0..(STACK_SIZE - 1)
    /\ a.keypad \subseteq 0..(NUM_KEYS - 1)

\* the outcomes of the next instruction's out-of-bounds accesses
ub_values(c, cfg) ==
    IF in_bounds(accesses(c, cfg)) THEN {NoUb} ELSE Undefined

\* the outcomes of the out-of-bounds accesses of the next instruction in a
\* build with DEBUG defined
ub_values_debug(c, cfg) ==
    IF in_bounds(accesses_debug(c, cfg)) THEN {NoUb} ELSE Undefined

\* the values of rand() that are told apart (only CXNN calls rand)
RandValues == {0, 165, 255, 32767}

rand_values(c) ==
    IF c.PC + 1 < RAM_SIZE /\ inst_at(c).opcode \div \h1000 = 12
    THEN RandValues ELSE {0}

----------------------------------------------------------------------------
(* handle_input *)

\* the QWERTY keys mapped to the CHIP-8 keypad
keymap ==
    [SDLK_1 |-> 1,  SDLK_2 |-> 2,  SDLK_3 |-> 3,  SDLK_4 |-> 12,
     SDLK_q |-> 4,  SDLK_w |-> 5,  SDLK_e |-> 6,  SDLK_r |-> 13,
     SDLK_a |-> 7,  SDLK_s |-> 8,  SDLK_d |-> 9,  SDLK_f |-> 14,
     SDLK_z |-> 10, SDLK_x |-> 0,  SDLK_c |-> 11, SDLK_v |-> 15]

\* handle_input(&chip8) on the event queue q: the machine it leaves and the
\* events it leaves in the queue (it returns at a quit or a Space key-down)
RECURSIVE handle_input(_, _)
handle_input(c, q) ==
    IF q = <<>> THEN [chip8 |-> c, events |-> q]
    ELSE LET event == Head(q)
             rest == Tail(q)
         IN CASE event.type = "SDL_QUIT" ->
                    [chip8 |-> [c EXCEPT !.state = "QUIT"], events |-> rest]
              [] event.type = "SDL_KEYDOWN" /\ event.sym = "SDLK_ESCAPE" ->
                    [chip8 |-> [c EXCEPT !.state = "QUIT"], events |-> rest]
              [] event.type = "SDL_KEYDOWN" /\ event.sym = "SDLK_SPACE" ->
                    [chip8 |-> [c EXCEPT !.state =
                                   IF c.state = "RUNNING" THEN "PAUSED" ELSE "RUNNING"],
                     events |-> rest]
              [] event.type = "SDL_KEYDOWN" /\ event.sym \in DOMAIN keymap ->
                    handle_input([c EXCEPT !.keypad[keymap[event.sym]] = TRUE], rest)
              [] event.type = "SDL_KEYUP" /\ event.sym \in DOMAIN keymap ->
                    handle_input([c EXCEPT !.keypad[keymap[event.sym]] = FALSE], rest)
              [] OTHER -> handle_input(c, rest)

----------------------------------------------------------------------------
(* update_timers *)

\* update_timers without its tests for a timer at 0
update_timers_wrap(c) ==
    [c EXCEPT !.delay_timer = (@ + UINT8 - 1) % UINT8,
              !.sound_timer = (@ + UINT8 - 1) % UINT8]

\* update_timers without its decrements
update_timers_off(c) == c

update_timers(c) ==
    [c EXCEPT !.delay_timer = IF @ > 0 THEN @ - 1 ELSE @,
              !.sound_timer = IF @ > 0 THEN @ - 1 ELSE @]

----------------------------------------------------------------------------
(* The ROM files the model runs *)

\* an opcode from its four nibbles, as the two bytes of the ROM
Op(a, b, c, d) == <<a * 16 + b, c * 16 + d>>

\* an opcode from its top nibble and NNN
OpNNN(a, nnn) == <<a * 16 + nnn \div 256, nnn % 256>>

\* the largest ROM init_chip8 accepts
max_size == RAM_SIZE - entry_point

\* a ROM of max_size bytes: code at its start, tail at its end (up to 0xFFF)
RomWithTail(code, tail) ==
    [k \in 1..max_size |->
        IF k <= Len(code) THEN code[k]
        ELSE IF k > max_size - Len(tail) THEN tail[k - (max_size - Len(tail))]
        ELSE 0]

\* calls and returns, also on an empty and on a full stack
RomsStack ==
    { Op(0, 0, 14, 14),                                       \* 00EE
      OpNNN(2, \h200),                                        \* 2200
      OpNNN(2, \h204) \o OpNNN(1, \h202) \o Op(0, 0, 14, 14) }

\* control flow and memory accesses at the end of the address space
RomsEdge ==
    { OpNNN(1, \hFFE),                                        \* 1FFE
      OpNNN(1, \hFFF),                                        \* 1FFF
      Op(6, 0, 15, 15) \o OpNNN(11, \hFFF),                   \* 60FF BFFF
      RomWithTail(OpNNN(1, \hFFC), Op(3, 0, 0, 0) \o Op(0, 0, 0, 0)),
      RomWithTail(OpNNN(1, \hFFE), Op(3, 0, 0, 0)),
      Op(15, 0, 0, 10),                                       \* F00A
      OpNNN(10, \hFFF) \o Op(6, 0, 15, 15) \o Op(15, 0, 1, 14)
          \o Op(15, 0, 3, 3) \o OpNNN(1, \h208),              \* AFFF 60FF F01E F033
      OpNNN(10, \hFFF) \o Op(6, 1, 0, 7) \o Op(15, 1, 5, 5)
          \o OpNNN(1, \h206),                                 \* AFFF 6107 F155
      OpNNN(10, \hFFF) \o Op(15, 1, 6, 5) \o OpNNN(1, \h204), \* AFFF F165
      OpNNN(10, \hFFE) \o Op(13, 0, 0, 5) \o OpNNN(1, \h204), \* AFFE D005
      OpNNN(10, \hFFD) \o Op(6, 0, 9, 12) \o Op(15, 0, 3, 3)
          \o Op(15, 2, 5, 5) \o Op(15, 2, 6, 5) \o OpNNN(1, \h20A) }

\* the operand values and register pairs of the arithmetic ROMs
AluValues == {0, 1, 127, 128, 255}
AluRegs == {<<1, 2>>, <<15, 2>>, <<1, 15>>, <<3, 3>>}
AluOps == {4, 5, 6, 7, 14}

\* 6X a; 6Y b; 8XYn; and a jump to itself
RomsAlu ==
    { Op(6, xy[1], a \div 16, a % 16) \o Op(6, xy[2], b \div 16, b % 16)
        \o Op(8, xy[1], xy[2], n) \o OpNNN(1, \h206) :
      a \in AluValues, b \in AluValues, xy \in AluRegs, n \in AluOps }

\* the coordinates, heights, registers, sprites and backgrounds of the
\* drawing ROMs
DrawXs == {0, 58, 63, 125, 255}
DrawYs == {0, 29, 31, 50, 255}
DrawNs == {0, 1, 5, 15}
DrawRegs == {<<0, 1>>, <<15, 1>>, <<0, 15>>, <<2, 2>>}
Sprites ==
    { <<\h80, \h01, \hFF, \h00, \hA5, \h3C, \h81, \h18,
        \hF0, \h0F, \h55, \hAA, \h7E, \h10, \hC3>>,
      <<0, 0, 0, 0, 0, 0, 0, 0, 0, 0, 0, 0, 0, 0, 0>> }
Backgrounds ==
    { <<>>,
      <<\hFF, \hFF, \hFF, \hFF, \hFF, \hFF, \hFF, \hFF,
        \hFF, \hFF, \hFF, \hFF, \hFF, \hFF, \hFF>>,
      <<\hF0, \h00, \h18, \hF0, \h00, \h18, \hF0, \h00,
        \h18, \hF0, \h00, \h18, \hF0, \h00, \h18>> }

\* 6X vx; 6Y vy; (ANNN; DXYF: the background;) ANNN; DXYn; DXYn; and a jump
\* to itself, followed by the sprite and the background
RomDraw(vx, vy, n, xy, sprite, bg) ==
    LET ncode == IF bg = <<>> THEN 12 ELSE 16
        spr == entry_point + ncode
    IN Op(6, xy[1], vx \div 16, vx % 16) \o Op(6, xy[2], vy \div 16, vy % 16)
       \o (IF bg = <<>> THEN <<>>
           ELSE OpNNN(10, spr + Len(sprite)) \o Op(13, xy[1], xy[2], 15))
       \o OpNNN(10, spr) \o Op(13, xy[1], xy[2], n) \o Op(13, xy[1], xy[2], n)
       \o OpNNN(1, spr - 2) \o sprite \o bg

RomsDraw ==
    { RomDraw(vx, vy, n, xy, sprite, bg) :
      vx \in DrawXs, vy \in DrawYs, n \in DrawNs, xy \in DrawRegs,
      sprite \in Sprites, bg \in Backgrounds }

\* the values of VX of the keypad and of the font ROMs
KeyValues == {7, 15, 23, 255}
FontValues == {0, 9, 15, 16, 255}

\* 6X vx; EX9E or EXA1; a jump to itself (reached without the skip) and
\* another one (reached with it)
RomsKeys ==
    { Op(6, x, vx \div 16, vx % 16) \o Op(14, x, nn \div 16, nn % 16)
        \o OpNNN(1, \h204) \o OpNNN(1, \h206) :
      vx \in KeyValues, x \in {0}, nn \in {\h9E, \hA1} }

\* 6X vx; FX29; and a jump to itself
RomsFont ==
    { Op(6, x, vx \div 16, vx % 16) \o Op(15, x, 2, 9) \o OpNNN(1, \h204) :
      vx \in FontValues, x \in {0, 15} }

\* 6003 F015 6102 F118 F20A and a jump to itself: the delay timer set to 3,
\* the sound timer to 2, then a wait for a key
RomsWait ==
    { Op(6, 0, 0, 3) \o Op(15, 0, 1, 5) \o Op(6, 1, 0, 2) \o Op(15, 1, 1, 8)
        \o Op(15, 2, 0, 10) \o OpNNN(1, \h20A) }

\* the values the timer ROMs give to the delay and to the sound timer
TimerPairs ==
    {<<0, 0>>, <<3, 0>>, <<0, 3>>, <<1, 3>>, <<3, 1>>, <<255, 2>>, <<2, 255>>}

\* 60 dt; F015; 61 st; F118; and a jump to itself
RomsTimers ==
    { Op(6, 0, t[1] \div 16, t[1] % 16) \o Op(15, 0, 1, 5)
        \o Op(6, 1, t[2] \div 16, t[2] % 16) \o Op(15, 1, 1, 8)
        \o OpNNN(1, \h208) : t \in TimerPairs }

\* the bytes of a ROM given as its 16-bit words, high byte first
RomOf(words) ==
    [k \in 1..(2 * Len(words)) |->
        IF k % 2 = 1 THEN words[(k + 1) \div 2] \div 256
        ELSE words[k \div 2] % 256]

\* A program that sets both timers to 200 and then executes the opcodes of
\* every kind once, ending in a wait for a key; the 0000 are skipped or
\* jumped over.
RomsTour ==
    { RomOf(<< \h60C8, \hF015, \hF018, \h6105, \h7103, \h3108, \h0000, \h4108,
               \h5010, \h9010, \h0000, \h8010, \h8011, \h8012, \h8013, \h8014,
               \h8015, \h8016, \h8017, \h801E, \hA000, \hC0FF, \hD015, \h6007,
               \hE09E, \hE0A1, \h0000, \hF007, \hF01E, \h6003, \hF029, \hF033,
               \hF155, \hF165, \h2252, \h00E0, \h6002, \hB24C, \h0000, \h1254,
               \h0000, \h00EE, \hF00A >>) }

\* opcodes outside the instruction set
IllegalOpcodes ==
    { \h0123, \h01E0, \h0FE0, \h01EE, \h5011, \h501F, \h5021, \h9011,
      \h9021, \h8018, \h801D, \h801F, \hE000, \hE09F, \hE1FF, \hF000,
      \hF056, \hF1FF }

\* 2204 (a call) and, at 0x204: 6005 6105 D015 (registers set, a glyph
\* drawn), then the opcode and two jumps to themselves, the second reached
\* by a skip; at 0x202, where a return leads, a jump to itself
RomsIllegal ==
    { RomOf(<< \h2204, \h1202, \h6005, \h6105, \hD015, opcode, \h120C,
               \h120E >>) : opcode \in IllegalOpcodes }

\* 2204 and a jump to itself; then at 0x204 + 4k (k = 0..10) a call of
\* 0x208 + 4k followed by 00EE, and at 0x230 a 00EE: twelve nested calls and
\* their returns
RomsNested ==
    { RomOf(<< \h2204, \h1202 >>
            \o [w \in 1..22 |->
                  IF w % 2 = 1 THEN \h2000 + \h208 + 2 * (w - 1) ELSE \h00EE]
            \o << \h00EE >>) }

\* 6011 6122 6233 6F44; ANNN; FX55; FX65; and a jump to itself: registers
\* stored and loaded again, also in the last bytes of memory; and
\* 6F44; A000; FX65; (jump): registers loaded from the font
RomsRegs ==
    { RomOf(<< \h6011, \h6122, \h6233, \h6F44, \hA000 + nnn,
               \hF055 + \h100 * x, \hF065 + \h100 * x, \h120E >>) :
      x \in {0, 1, 2, 15}, nnn \in {\h300, \hFF0} }
    \cup
    { RomOf(<< \h6F44, \hA000, \hF065 + \h100 * x, \h1206 >>) :
      x \in {0, 2, 15} }

\* 6X vx; A300; FX33; and a jump to itself, for every value of V0 and for
\* some values of VF
RomsBcd ==
    { RomOf(<< \h6000 + vx, \hA300, \hF033, \h1206 >>) : vx \in 0..255 }
    \cup
    { RomOf(<< \h6F00 + vx, \hA300, \hFF33, \h1206 >>) :
      vx \in {0, 9, 10, 99, 100, 199, 200, 255} }

\* 6X a; 6F01 (for X = 0); 7X nn; and a jump to itself: additions of a
\* constant, with and without overflow
AddValues == {0, 1, 128, 255}
RomsAdd ==
    { RomOf(<< \h6000 + a, \h6F01, \h7000 + nn, \h1206 >>) :
      a \in AddValues, nn \in AddValues }
    \cup
    { RomOf(<< \h6F00 + a, \h7F00 + nn, \h1204 >>) :
      a \in AddValues, nn \in AddValues }

\* the lengths of the ROM files that init_chip8 is given to load
LoadSizes == {0, 1, 2, 4, 6, 3583, 3584, 3585}

\* a file of n bytes: 6020 F015 (the delay timer set to 32), a jump to
\* itself, then bytes that are not 0
RomsLoad ==
    { [k \in 1..n |->
          IF k <= 6 THEN << \h60, \h20, \hF0, \h15, \h12, \h04 >>[k]
          ELSE (k % 255) + 1] : n \in LoadSizes }

\* the ROMs run without user input, and those run with it
RomsIdle ==
    RomsStack \cup RomsEdge \cup RomsAlu \cup RomsDraw \cup RomsFont
        \cup RomsTimers \cup RomsTour \cup RomsIllegal \cup RomsNested
        \cup RomsRegs \cup RomsAdd
RomsInput ==
    { Op(15, 0, 0, 10) \o Op(15, 0, 1, 5) \o OpNNN(1, \h204) } \cup RomsKeys

----------------------------------------------------------------------------
(* main *)

NoAccess == [ram |-> {}, stack |-> {}, keypad |-> {}]

\* the events a user produces
UserEvents ==
    { [type |-> "SDL_QUIT", sym |-> "none"],
      [type |-> "SDL_KEYDOWN", sym |-> "SDLK_ESCAPE"],
      [type |-> "SDL_KEYDOWN", sym |-> "SDLK_SPACE"],
      [type |-> "SDL_KEYDOWN", sym |-> "SDLK_a"],
      [type |-> "SDL_KEYUP", sym |-> "SDLK_a"],
      [type |-> "SDL_KEYDOWN", sym |-> "SDLK_1"] }

\* fread(ptr, size, nmemb, file) on a file just opened: the number of whole
\* items of size bytes it reads, 0 when size is 0
fread(file, size, nmemb) ==
    IF size = 0 THEN 0
    ELSE IF Len(file) \div size < nmemb THEN Len(file) \div size
    ELSE nmemb

\* init_chip8 returns true: the size check passes and fread reports 1 item
init_chip8_ok(rom) ==
    LET rom_size == Len(rom)
    IN /\ ~(rom_size > max_size)
       /\ ~(fread(rom, rom_size, 1) # 1)

\* chip8_t chip8 = {0} after an init_chip8 that returned false: the font is
\* in ram[], nothing else was set (QUIT is 0; the null stack_ptr, shown as
\* 0, is never used)
init_chip8_failed ==
    [init_chip8(<<>>) EXCEPT !.state = "QUIT", !.PC = 0]

\* the state of main after init_chip8 was given a file of roms: in its loop,
\* or past exit(EXIT_FAILURE)
InitLoadWith(roms) ==
    /\ rom_file \in roms
    /\ chip8 = (IF init_chip8_ok(rom_file) THEN init_chip8(rom_file)
                ELSE init_chip8_failed)
    /\ sdl_events = <<>>
    /\ pc = (IF init_chip8_ok(rom_file) THEN "poll" ELSE "exited")
    /\ i = 0
    /\ posted = 0
    /\ hist = <<>>
    /\ acc = [ram |-> {}, stack |-> {}, keypad |-> {}]
    /\ last = "init_chip8"

\* the state of main when it enters its loop, after init_chip8 loaded rom
InitWith(roms) ==
    /\ rom_file \in roms
    /\ chip8 = init_chip8(rom_file)
    /\ sdl_events = <<>>
    /\ pc = "poll"
    /\ i = 0
    /\ posted = 0
    /\ hist = <<>>
    /\ acc = NoAccess
    /\ last = "init_chip8"

\* the model follows the program up to its first out-of-bounds access
Defined == in_bounds(acc)

\* an event among events enters the queue SDL_PollEvent reads
Post(events) ==
    /\ posted < MaxEvents
    /\ pc # "exited"
    /\ Defined
    /\ \E e \in events : sdl_events' = Append(sdl_events, e)
    /\ posted' = posted + 1
    /\ UNCHANGED <<rom_file, chip8, pc, i, hist, acc, last>>

\* the user presses or releases a key, or closes the window
UserEvent == Post(UserEvents)

\* during a wait for a key, the user pauses, resumes or presses a key
WaitEvents ==
    { [type |-> "SDL_KEYDOWN", sym |-> "SDLK_SPACE"],
      [type |-> "SDL_KEYDOWN", sym |-> "SDLK_a"] }
WaitEvent == Post(WaitEvents)

\* HandleInput without the line if (chip8.state == PAUSED) continue;
HandleInput_no_continue ==
    /\ pc = "poll"
    /\ Defined
    /\ LET r == handle_input(chip8, sdl_events)
       IN /\ chip8' = r.chip8
          /\ sdl_events' = r.events
          /\ pc' = "emulate"
    /\ i' = 0
    /\ last' = "handle_input"
    /\ UNCHANGED <<rom_file, posted, hist, acc>>

\* while (chip8.state != QUIT) { handle_input(&chip8);
\*     if (chip8.state == PAUSED) continue; ...
HandleInput ==
    /\ pc = "poll"
    /\ Defined
    /\ LET r == handle_input(chip8, sdl_events)
       IN /\ chip8' = r.chip8
          /\ sdl_events' = r.events
          /\ pc' = IF r.chip8.state = "PAUSED" THEN "poll" ELSE "emulate"
    /\ i' = 0
    /\ last' = "handle_input"
    /\ UNCHANGED <<rom_file, posted, hist, acc>>

\* EmulateInstruction with the loop test i <= config.inst_per_second / 60
EmulateInstruction_once_more ==
    /\ pc = "emulate"
    /\ i <= config.inst_per_second \div 60
    /\ Defined
    /\ \E rnd \in rand_values(chip8), ub \in ub_values(chip8, config) :
          chip8' = emulate_instruction(chip8, config, rnd, ub)
    /\ acc' = accesses(chip8, config)
    /\ hist' = SubSeq(<<chip8>> \o hist, 1,
                      IF Len(hist) < HistLen THEN Len(hist) + 1 ELSE HistLen)
    /\ i' = i + 1
    /\ pc' = IF i + 1 <= config.inst_per_second \div 60 THEN "emulate" ELSE "timers"
    /\ last' = "emulate_instruction"
    /\ UNCHANGED <<rom_file, sdl_events, posted>>

\* for (i = 0; i < config.inst_per_second / 60; i++)
\*     emulate_instruction(&chip8, config);
EmulateInstruction ==
    /\ pc = "emulate"
    /\ i < config.inst_per_second \div 60
    /\ Defined
    /\ \E rnd \in rand_values(chip8), ub \in ub_values(chip8, config) :
          chip8' = emulate_instruction(chip8, config, rnd, ub)
    /\ acc' = accesses(chip8, config)
    /\ hist' = SubSeq(<<chip8>> \o hist, 1,
                      IF Len(hist) < HistLen THEN Len(hist) + 1 ELSE HistLen)
    /\ i' = i + 1
    /\ pc' = IF i + 1 < config.inst_per_second \div 60 THEN "emulate" ELSE "timers"
    /\ last' = "emulate_instruction"
    /\ UNCHANGED <<rom_file, sdl_events, posted>>

\* the instruction loop of main in a build with DEBUG defined
EmulateInstructionDebug ==
    /\ pc = "emulate"
    /\ i < config.inst_per_second \div 60
    /\ Defined
    /\ \E rnd_debug \in rand_values(chip8), rnd \in rand_values(chip8),
          ub \in ub_values_debug(chip8, config) :
          chip8' = emulate_instruction_debug(chip8, config, rnd_debug, rnd, ub)
    /\ acc' = accesses_debug(chip8, config)
    /\ hist' = SubSeq(<<chip8>> \o hist, 1,
                      IF Len(hist) < HistLen THEN Len(hist) + 1 ELSE HistLen)
    /\ i' = i + 1
    /\ pc' = IF i + 1 < config.inst_per_second \div 60 THEN "emulate" ELSE "timers"
    /\ last' = "emulate_instruction"
    /\ UNCHANGED <<rom_file, sdl_events, posted>>

\* UpdateTimers without the test chip8.state != QUIT of the while loop
UpdateTimers_no_test ==
    /\ pc = "timers"
    /\ Defined
    /\ chip8' = update_timers(chip8)
    /\ pc' = "poll"
    /\ last' = "update_timers"
    /\ UNCHANGED <<rom_file, sdl_events, i, posted, hist, acc>>

\* update_screen(sdl, config, chip8); update_timers(&chip8); and the test of
\* the while loop
UpdateTimers ==
    /\ pc = "timers"
    /\ Defined
    /\ chip8' = update_timers(chip8)
    /\ pc' = IF chip8.state = "QUIT" THEN "cleanup" ELSE "poll"
    /\ last' = "update_timers"
    /\ UNCHANGED <<rom_file, sdl_events, i, posted, hist, acc>>

\* final_cleanup(sdl); exit(EXIT_SUCCESS)
FinalCleanup ==
    /\ pc = "cleanup"
    /\ pc' = "exited"
    /\ last' = "final_cleanup"
    /\ UNCHANGED <<rom_file, chip8, sdl_events, i, posted, hist, acc>>

\* the program with a user
Init == InitWith(RomsInput)
Next == UserEvent \/ HandleInput \/ EmulateInstruction \/ UpdateTimers \/ FinalCleanup
Spec == Init /\ [][Next]_vars

\* The program waiting for a key with its timers running, with a user who
\* neither quits nor releases a key. The loop of main is sequential code whose
\* calls all return, so each of its steps that can be taken is taken; nothing
\* makes the user act.
InitWait == InitWith(RomsWait)
NextWait == WaitEvent \/ HandleInput \/ EmulateInstruction \/ UpdateTimers
SpecWait ==
    /\ InitWait /\ [][NextWait]_vars
    /\ WF_vars(HandleInput) /\ WF_vars(EmulateInstruction)
    /\ WF_vars(UpdateTimers)

\* the program from the loading of its ROM file, the user producing no event
InitLoad == InitLoadWith(RomsLoad)
SpecLoad == InitLoad /\ [][HandleInput \/ EmulateInstruction \/ UpdateTimers]_vars

\* the program converting each value of a register to decimal, the user
\* producing no event
InitBcd == InitWith(RomsBcd)
SpecBcd == InitBcd /\ [][HandleInput \/ EmulateInstruction \/ UpdateTimers]_vars

\* A program waiting for a key (F00A F015 1204) and one spinning in a jump
\* (1200), with a user who may quit, pause, resume or press a key. The loop
\* of main is sequential code whose calls all return, so each of its steps
\* that can be taken is taken; nothing makes the user act.
RomsQuit ==
    { Op(15, 0, 0, 10) \o Op(15, 0, 1, 5) \o OpNNN(1, \h204),
      OpNNN(1, \h200) }
QuitEvents ==
    { [type |-> "SDL_QUIT", sym |-> "none"],
      [type |-> "SDL_KEYDOWN", sym |-> "SDLK_ESCAPE"],
      [type |-> "SDL_KEYDOWN", sym |-> "SDLK_SPACE"],
      [type |-> "SDL_KEYDOWN", sym |-> "SDLK_a"] }
QuitEvent == Post(QuitEvents)
InitQuit == InitWith(RomsQuit)
NextQuit ==
    QuitEvent \/ HandleInput \/ EmulateInstruction \/ UpdateTimers \/ FinalCleanup
SpecQuit ==
    /\ InitQuit /\ [][NextQuit]_vars
    /\ WF_vars(HandleInput) /\ WF_vars(EmulateInstruction)
    /\ WF_vars(UpdateTimers) /\ WF_vars(FinalCleanup)

\* the build with DEBUG defined running the programs that call, return,
\* clear the display and draw random numbers, the user producing no event
RomsDebug == RomsStack \cup RomsNested \cup RomsTour \cup RomsIllegal
InitDebug == InitWith(RomsDebug)
SpecDebug ==
    InitDebug /\ [][HandleInput \/ EmulateInstructionDebug \/ UpdateTimers]_vars

\* the program while the user produces no event
InitIdle == InitWith(RomsIdle)
NextIdle == HandleInput \/ EmulateInstruction \/ UpdateTimers
SpecIdle == InitIdle /\ [][NextIdle]_vars

----------------------------------------------------------------------------
(* Vocabulary of the properties *)

\* the last operation was an instruction step; then hist[1] is the machine
\* before that step and chip8.inst the instruction it executed
JustExecuted == last = "emulate_instruction"

\* the executed instruction is 8XYn
IsAlu(n) == chip8.inst.opcode \div \h1000 = 8 /\ chip8.inst.N = n

\* the executed instruction is DXYN
IsDraw == chip8.inst.opcode \div \h1000 = 13

\* the flag 8XYn is specified to leave in VF, from the machine b before it
FlagOf(b, inst) ==
    CASE inst.N = 4 -> IF b.V[inst.X] + b.V[inst.Y] > 255 THEN 1 ELSE 0
      [] inst.N = 5 -> IF b.V[inst.X] >= b.V[inst.Y] THEN 1 ELSE 0
      [] inst.N = 7 -> IF b.V[inst.Y] >= b.V[inst.X] THEN 1 ELSE 0
      [] inst.N = 6 -> b.V[inst.X] % 2
      [] inst.N = 14 -> b.V[inst.X] \div 128

\* every register but VX and VF is as in b
OtherRegsKept(b, X) ==
    \A r \in 0..(NUM_REGS - 1) : r \in {X, 15} \/ chip8.V[r] = b.V[r]

----------------------------------------------------------------------------
(* C1 *)

\* the executed instruction is a return on an empty stack or a call on a
\* full one
StackFaultCase ==
    /\ JustExecuted
    /\ \/ chip8.inst.opcode = \h00EE /\ hist[1].stack_ptr = 0
       \/ chip8.inst.opcode \div \h1000 = 2 /\ hist[1].stack_ptr = STACK_SIZE

\* C1: a return on an empty stack, or a call with 12 return addresses on the
\* stack, touches no slot outside stack[0..11] and halts the machine (it no
\* longer is RUNNING, so that no later step changes it).
C1_StackFaultHalts ==
    StackFaultCase =>
        /\ acc.stack \subseteq 0..(STACK_SIZE - 1)
        /\ chip8.state # "RUNNING"

----------------------------------------------------------------------------
(* C2 *)

\* C2: after any sequence of instruction steps the stack pointer designates
\* a depth in 0..12.
C2_StackPtrInRange == chip8.stack_ptr \in 0..STACK_SIZE

----------------------------------------------------------------------------
(* C3 *)

\* C3: after every instruction step PC is in 0..0xFFF.
C3_PcInRange == JustExecuted => chip8.PC \in 0..\hFFF

----------------------------------------------------------------------------
(* C4 *)

\* C4: every RAM access of an instruction step uses an index in 0..4095.
C4_RamIndexInRange == JustExecuted => acc.ram \subseteq 0..(RAM_SIZE - 1)

----------------------------------------------------------------------------
(* C5 *)

\* C5: after 8XY4, 8XY5, 8XY7, 8XY6 or 8XYE with X = F, VF holds the carry,
\* borrow or shifted-out flag of the operands, not the arithmetic result.
C5_FlagWrittenLast ==
    (JustExecuted /\ chip8.inst.X = 15 /\ \E n \in {4, 5, 6, 7, 14} : IsAlu(n))
        => chip8.V[15] = FlagOf(hist[1], chip8.inst)

----------------------------------------------------------------------------
(* C6 *)

\* C6: after 8XY4 with X # F, VX is the sum of the former VX and VY modulo
\* 256, VF is 1 iff that sum exceeds 255, PC has advanced by 2 and no other
\* register has changed.
C6_AddWithCarry ==
    (JustExecuted /\ IsAlu(4) /\ chip8.inst.X # 15) =>
        LET b == hist[1]
            X == chip8.inst.X
            Y == chip8.inst.Y
        IN /\ chip8.V[X] = (b.V[X] + b.V[Y]) % 256
           /\ chip8.V[15] = (IF b.V[X] + b.V[Y] > 255 THEN 1 ELSE 0)
           /\ chip8.PC = b.PC + 2
           /\ OtherRegsKept(b, X)
           /\ chip8.I = b.I

----------------------------------------------------------------------------
(* C7 *)

\* C7: after 8XY5 with X # F, VX = (VX - VY) mod 256 and VF = 1 iff
\* VX >= VY; after 8XY7 with X # F, VX = (VY - VX) mod 256 and VF = 1 iff
\* VY >= VX (operands as before the step).
C7_SubWithBorrow ==
    (JustExecuted /\ chip8.inst.X # 15 /\ (IsAlu(5) \/ IsAlu(7))) =>
        LET b == hist[1]
            X == chip8.inst.X
            Y == chip8.inst.Y
        IN IF IsAlu(5)
           THEN /\ chip8.V[X] = (b.V[X] - b.V[Y] + 256) % 256
                /\ chip8.V[15] = (IF b.V[X] >= b.V[Y] THEN 1 ELSE 0)
           ELSE /\ chip8.V[X] = (b.V[Y] - b.V[X] + 256) % 256
                /\ chip8.V[15] = (IF b.V[Y] >= b.V[X] THEN 1 ELSE 0)

----------------------------------------------------------------------------
(* The reference blit of DXYN *)

\* row r of the sprite at I; byte stands for a row fetched past ram[4095]
SpriteRow(b, r, byte) ==
    IF b.I + r < RAM_SIZE THEN b.ram[b.I + r] ELSE byte

\* the sprite of inst, placed at (VX mod 64, VY mod 32) on the machine b, has
\* a bit equal to 1 on pixel p: bit col (MSB first) of row row, with
\* p = (sy + row) * 64 + sx + col; a pixel of the screen has no column >= 64
\* and no row >= 32
DrawnBit(b, inst, byte, p) ==
    LET sx == b.V[inst.X] % 64
        sy == b.V[inst.Y] % 32
        col == (p % 64) - sx
        row == (p \div 64) - sy
    IN /\ row \in 0..(inst.N - 1)
       /\ col \in 0..7
       /\ (SpriteRow(b, row, byte) \div (2 ^ (7 - col))) % 2 = 1

\* the framebuffer the reference blit leaves
RefBlit(b, inst, byte) ==
    [p \in 0..(DISPLAY_SIZE - 1) |-> b.display[p] # DrawnBit(b, inst, byte, p)]

\* the reference blit turns off a pixel that was set
Collides(b, inst, byte) ==
    \E p \in 0..(DISPLAY_SIZE - 1) : DrawnBit(b, inst, byte, p) /\ b.display[p]

----------------------------------------------------------------------------
(* C8 *)

\* C8: DXYN leaves the framebuffer of the reference blit: starting at
\* (VX mod 64, VY mod 32), bit b (MSB first) of row r is XOR-ed into pixel
\* (sx + b, sy + r); the sprite is clipped at the right and bottom edges and
\* every other pixel is unchanged.
C8_DrawIsReferenceBlit ==
    (JustExecuted /\ IsDraw) =>
        \E byte \in OobBytes : chip8.display = RefBlit(hist[1], chip8.inst, byte)

\* a sprite with pixels set was clipped at the right and at the bottom edge
C8_Witness ==
    /\ JustExecuted /\ IsDraw /\ in_bounds(acc)
    /\ (hist[1].V[chip8.inst.X] % 64) > 56
    /\ (hist[1].V[chip8.inst.Y] % 32) + chip8.inst.N > 32
    /\ chip8.display # hist[1].display
    /\ chip8.display = RefBlit(hist[1], chip8.inst, 0)

----------------------------------------------------------------------------
(* C9 *)

\* C9: after DXYN, VF = 1 iff a drawn sprite bit equal to 1 landed on a pixel
\* that was set before the instruction, and VF = 0 otherwise, whatever VF
\* held before and also when X or Y is F.
C9_FlagIsCollision ==
    (JustExecuted /\ IsDraw) =>
        \E byte \in OobBytes :
            chip8.V[15] = (IF Collides(hist[1], chip8.inst, byte) THEN 1 ELSE 0)

\* a blit without a collision cleared a VF that held 1, and one with a
\* collision set VF although X = F
C9_Witness ==
    /\ JustExecuted /\ IsDraw /\ in_bounds(acc)
    /\ \/ hist[1].V[15] = 1 /\ chip8.V[15] = 0
             /\ ~Collides(hist[1], chip8.inst, 0)
             /\ chip8.display # hist[1].display
       \/ chip8.inst.X = 15 /\ chip8.V[15] = 1 /\ Collides(hist[1], chip8.inst, 0)

----------------------------------------------------------------------------
(* C10 *)

\* the last two instructions were the same DXYN, with the same I, the same
\* sprite bytes and the same values in the coordinate registers
TwoBlits ==
    /\ JustExecuted /\ Len(hist) >= 2 /\ IsDraw /\ in_bounds(acc)
    /\ hist[1].inst = chip8.inst
    /\ hist[1].I = hist[2].I
    /\ hist[1].V[chip8.inst.X] = hist[2].V[chip8.inst.X]
    /\ hist[1].V[chip8.inst.Y] = hist[2].V[chip8.inst.Y]
    /\ \A r \in 0..(rows_read(hist[1], config, chip8.inst) - 1) :
          hist[1].ram[hist[1].I + r] = hist[2].ram[hist[2].I + r]

\* some sprite bit equal to 1 was drawn
SomeBitDrawn ==
    \E p \in 0..(DISPLAY_SIZE - 1) : DrawnBit(hist[1], chip8.inst, 0, p)

\* C10 as stated: the second of two identical blits restores the framebuffer
\* that existed before the first, and leaves VF = 1 whenever some drawn sprite
\* bit was 1.
C10_Original ==
    TwoBlits =>
        /\ chip8.display = hist[2].display
        /\ SomeBitDrawn => chip8.V[15] = 1

\* C10, amended: the second of two identical blits restores the framebuffer
\* that existed before the first, and leaves VF = 1 whenever some drawn sprite
\* bit was 1 on a pixel that was off before the first blit (set between the
\* two blits).
C10_BlitTwiceRestores ==
    TwoBlits =>
        /\ chip8.display = hist[2].display
        /\ (\E p \in 0..(DISPLAY_SIZE - 1) :
                DrawnBit(hist[1], chip8.inst, 0, p) /\ ~hist[2].display[p])
              => chip8.V[15] = 1

\* two identical blits of a sprite with pixels set, over a background
C10_Witness ==
    /\ TwoBlits
    /\ chip8.display # hist[1].display
    /\ chip8.display = hist[2].display
    /\ \E p \in 0..(DISPLAY_SIZE - 1) : chip8.display[p]
    /\ chip8.V[15] = 1

----------------------------------------------------------------------------
(* C11 *)

\* the executed instruction is EX9E or EXA1
IsKeySkip ==
    chip8.inst.opcode \div \h1000 = 14 /\ chip8.inst.NN \in {\h9E, \hA1}

\* C11: EX9E skips the next instruction iff keypad[VX & 0xF] is pressed and
\* EXA1 iff it is not pressed, for every VX in 0..255, and the keypad is
\* indexed inside 0..15 only.
C11_KeySkipMasked ==
    (JustExecuted /\ IsKeySkip) =>
        LET b == hist[1]
            pressed == b.keypad[BitAnd(b.V[chip8.inst.X], \h0F)]
            skip == IF chip8.inst.NN = \h9E THEN pressed ELSE ~pressed
        IN /\ acc.keypad \subseteq 0..(NUM_KEYS - 1)
           /\ chip8.PC = b.PC + (IF skip THEN 4 ELSE 2)

----------------------------------------------------------------------------
(* C12 *)

\* the executed instruction is FXnn
IsMisc(nn) == chip8.inst.opcode \div \h1000 = 15 /\ chip8.inst.NN = nn

\* C12: FX29 sets I to (VX & 0xF) * 5, the first byte of one of the 16 font
\* glyphs in 0x000..0x04B, for every VX in 0..255.
C12_FontAddressMasked ==
    (JustExecuted /\ IsMisc(\h29)) =>
        /\ chip8.I = BitAnd(hist[1].V[chip8.inst.X], \h0F) * 5
        /\ chip8.I \in {5 * g : g \in 0..15}

----------------------------------------------------------------------------
(* C13 *)

\* the keys pressed on the machine b
Pressed(b) == {k \in 0..(NUM_KEYS - 1) : b.keypad[k]}

\* the lowest member of a non-empty set of keys
Lowest(keys) == CHOOSE k \in keys : \A other \in keys : k <= other

\* C13: FX0A with no key pressed leaves PC at the address of the FX0A and
\* changes no register (nor memory), so that the next step executes it again;
\* with one or more keys pressed it stores the lowest pressed key index in VX
\* and leaves PC 2 past the instruction.
C13_KeyWait ==
    (JustExecuted /\ IsMisc(\h0A)) =>
        LET b == hist[1]
        IN IF Pressed(b) = {}
           THEN /\ chip8.PC = b.PC
                /\ chip8.V = b.V
                /\ chip8.I = b.I
                /\ chip8.delay_timer = b.delay_timer
                /\ chip8.sound_timer = b.sound_timer
                /\ chip8.stack_ptr = b.stack_ptr
                /\ chip8.ram = b.ram
                /\ inst_at(chip8) = chip8.inst
           ELSE /\ chip8.V[chip8.inst.X] = Lowest(Pressed(b))
                /\ chip8.PC = b.PC + 2

\* an FX0A that found no key was executed again, with two keys pressed, and
\* took the lower one
C13_Witness ==
    /\ JustExecuted /\ IsMisc(\h0A) /\ Len(hist) >= 2
    /\ hist[2].PC = hist[1].PC
    /\ Pressed(hist[2]) = {}
    /\ Pressed(hist[1]) = {1, 7}
    /\ chip8.V[chip8.inst.X] = 1
    /\ chip8.PC = hist[1].PC + 2

----------------------------------------------------------------------------
(* C14 *)

\* the machine is RUNNING, no key is pressed and the next instruction is FX0A
Blocked ==
    /\ chip8.state = "RUNNING"
    /\ Pressed(chip8) = {}
    /\ chip8.PC + 1 < RAM_SIZE
    /\ inst_at(chip8).opcode \div \h1000 = 15
    /\ inst_at(chip8).NN = \h0A

\* the step is the timer tick that ends a frame
IsTick == pc = "timers" /\ pc' # "timers"

\* what one tick leaves of a timer
Ticked(t) == IF t > 0 THEN t - 1 ELSE 0

\* C14: while the program is blocked in FX0A with no key pressed and the
\* machine RUNNING, the tick at the end of each frame decrements a positive
\* DT and ST by one and no other step changes them, and a positive DT or ST
\* reaches 0 unless the wait ends first.
C14_TimersTickWhileWaiting ==
    /\ [][(Blocked /\ Blocked') =>
            IF IsTick
            THEN /\ chip8'.delay_timer = Ticked(chip8.delay_timer)
                 /\ chip8'.sound_timer = Ticked(chip8.sound_timer)
            ELSE /\ chip8'.delay_timer = chip8.delay_timer
                 /\ chip8'.sound_timer = chip8.sound_timer]_vars
    /\ (Blocked /\ chip8.delay_timer > 0) ~> (chip8.delay_timer = 0 \/ ~Blocked)
    /\ (Blocked /\ chip8.sound_timer > 0) ~> (chip8.sound_timer = 0 \/ ~Blocked)

\* the tick that brought DT to 0 during a wait, ST being 0 already
C14_Witness ==
    /\ Blocked /\ last = "update_timers" /\ Len(hist) >= 1
    /\ hist[1].PC = chip8.PC
    /\ hist[1].delay_timer = 1 /\ chip8.delay_timer = 0
    /\ hist[1].sound_timer = 0 /\ chip8.sound_timer = 0

----------------------------------------------------------------------------
(* C15 *)

\* C15: one timer tick decrements DT by exactly 1 if DT > 0 and ST by
\* exactly 1 if ST > 0, each whatever the other holds, leaves a timer that is
\* 0 at 0, and changes nothing else of the machine.
C15_TickDecrements ==
    [][IsTick =>
        chip8' = [chip8 EXCEPT !.delay_timer = Ticked(chip8.delay_timer),
                               !.sound_timer = Ticked(chip8.sound_timer)]]_vars

\* a tick after a jump, with DT at 0 and ST at 3: DT stayed 0, ST went to 2
C15_Witness ==
    /\ last = "update_timers" /\ Len(hist) >= 1
    /\ chip8.inst.opcode \div \h1000 = 1
    /\ hist[1].delay_timer = 0 /\ chip8.delay_timer = 0
    /\ hist[1].sound_timer = 3 /\ chip8.sound_timer = 2

----------------------------------------------------------------------------
(* C16 *)

----------------------------------------------------------------------------
(* C17 *)

\* the step is the handle_input that starts an iteration of the main loop
IsPoll == pc = "poll" /\ posted' = posted

\* the step is an instruction step
IsStep == pc = "emulate" /\ posted' = posted

\* C17: an iteration of the main loop that finds the machine RUNNING after
\* handle_input executes exactly inst_per_second / 60 = 8 instruction steps,
\* counted from 0 by one, and then ticks the timers once, directly after the
\* last step, before the next iteration starts; no tick comes earlier.
C17_FrameShape ==
    [][/\ (IsPoll /\ chip8'.state = "RUNNING") => (pc' = "emulate" /\ i' = 0)
       /\ IsStep =>
            /\ i < 8 /\ i' = i + 1
            /\ config.inst_per_second \div 60 = 8
            /\ pc' = (IF i' = 8 THEN "timers" ELSE "emulate")
       /\ IsTick =>
            /\ i = 8 /\ last = "emulate_instruction"
            /\ pc' \in {"poll", "cleanup"}]_vars

\* the tick of a frame of a RUNNING machine, after its 8 steps
C17_Witness ==
    /\ last = "update_timers" /\ i = 8 /\ pc = "poll"
    /\ chip8.state = "RUNNING"
    /\ Len(hist) >= 2

----------------------------------------------------------------------------
(* C18 *)

\* C18: the display changes only in an instruction step whose opcode is 00E0
\* or DXYN: every other opcode (FX33 and FX55 at any I among them), every
\* timer tick and every key event leaves all 2048 pixels as they were.
C18_DisplayWriters ==
    [][chip8'.display # chip8.display =>
        /\ IsStep
        /\ \/ chip8'.inst.opcode = \h00E0
           \/ chip8'.inst.opcode \div \h1000 = 13]_vars

----------------------------------------------------------------------------
(* C19 *)

\* inst is none of the 35 opcodes of the instruction set
Illegal(inst) ==
    LET op == inst.opcode \div \h1000
    IN \/ op = 0 /\ inst.opcode \notin {\h00E0, \h00EE}
       \/ op \in {5, 9} /\ inst.N # 0
       \/ op = 8 /\ inst.N \in (8..13) \cup {15}
       \/ op = 14 /\ inst.NN \notin {\h9E, \hA1}
       \/ op = 15 /\ inst.NN \notin
              {\h07, \h0A, \h15, \h18, \h1E, \h29, \h33, \h55, \h65}

\* C19: an opcode that is none of the 35 of the instruction set is a no-op:
\* the step leaves PC 2 past the opcode and changes no register, memory,
\* stack, timer or pixel.
C19_IllegalIsNoOp ==
    (JustExecuted /\ Illegal(chip8.inst)) =>
        chip8 = [hist[1] EXCEPT !.PC = hist[1].PC + 2, !.inst = chip8.inst]

----------------------------------------------------------------------------
(* C20 *)

\* the executed instruction is 2NNN
IsCall == chip8.inst.opcode \div \h1000 = 2

\* the executed instruction is 00EE
IsReturn == chip8.inst.opcode = \h00EE

\* C20: 2NNN at address A, with fewer than 12 addresses on the stack, pushes
\* A + 2 on top of them and sets PC = NNN; 00EE on a non-empty stack sets PC
\* to the address on top and restores the depth before the matching call;
\* between them only calls and returns change the stack, so that nested
\* returns come back in last-in-first-out order, each to the instruction
\* after its call; a return directly after a call at A ends at A + 2.
C20_CallReturn ==
    JustExecuted =>
        LET b == hist[1]
        IN /\ (IsCall /\ b.stack_ptr < STACK_SIZE) =>
                /\ chip8.stack = [b.stack EXCEPT ![b.stack_ptr] = b.PC + 2]
                /\ chip8.stack_ptr = b.stack_ptr + 1
                /\ chip8.PC = chip8.inst.NNN
           /\ (IsReturn /\ b.stack_ptr > 0) =>
                /\ chip8.PC = b.stack[b.stack_ptr - 1]
                /\ chip8.stack_ptr = b.stack_ptr - 1
                /\ chip8.stack = b.stack
           /\ (IsReturn /\ Len(hist) >= 2 /\ hist[1].inst.opcode \div \h1000 = 2
                 /\ hist[2].stack_ptr < STACK_SIZE) =>
                /\ chip8.PC = hist[2].PC + 2
                /\ chip8.stack_ptr = hist[2].stack_ptr
           /\ (~IsCall /\ ~(chip8.inst.opcode \div \h1000 = 0
                              /\ chip8.inst.NN = \hEE)) =>
                /\ chip8.stack = b.stack
                /\ chip8.stack_ptr = b.stack_ptr

\* the last of twelve nested returns: the stack is empty again, PC is after
\* the first call, and the twelfth slot still holds the address after the
\* twelfth call
C20_Witness ==
    /\ JustExecuted /\ IsReturn /\ in_bounds(acc)
    /\ hist[1].stack_ptr = 1 /\ chip8.stack_ptr = 0
    /\ chip8.PC = entry_point + 2
    /\ chip8.stack[STACK_SIZE - 1] = \h22E

----------------------------------------------------------------------------
(* C21 *)

\* C21: loading a ROM fails iff its length exceeds 3584 = 4096 - 0x200
\* bytes; for every length from 0 to 3584 the load succeeds and the bytes of
\* the ROM are in memory from 0x200 upward in order, none at or beyond 0x1000.
C21_LoadFailsIffTooLarge ==
    last = "init_chip8" =>
        /\ pc = "exited" <=> Len(rom_file) > 3584
        /\ pc # "exited" =>
              /\ DOMAIN chip8.ram = 0..\hFFF
              /\ \A k \in 1..Len(rom_file) :
                    /\ \h200 + k - 1 < \h1000
                    /\ chip8.ram[\h200 + k - 1] = rom_file[k]

----------------------------------------------------------------------------
(* C22 *)

\* the 16 glyphs of the CHIP-8 font, 5 bytes each
CanonicalFont ==
    << \hF0, \h90, \h90, \h90, \hF0,   \h20, \h60, \h20, \h20, \h70,
       \hF0, \h10, \hF0, \h80, \hF0,   \hF0, \h10, \hF0, \h10, \hF0,
       \h90, \h90, \hF0, \h10, \h10,   \hF0, \h80, \hF0, \h10, \hF0,
       \hF0, \h80, \hF0, \h90, \hF0,   \hF0, \h10, \h20, \h40, \h40,
       \hF0, \h90, \hF0, \h90, \hF0,   \hF0, \h90, \hF0, \h10, \hF0,
       \hF0, \h90, \hF0, \h90, \h90,   \hE0, \h90, \hE0, \h90, \hE0,
       \hF0, \h80, \h80, \h80, \hF0,   \hE0, \h90, \h90, \h90, \hE0,
       \hF0, \h80, \hF0, \h80, \hF0,   \hF0, \h80, \hF0, \h80, \h80 >>

\* init_chip8 has just returned true
JustInitialised == last = "init_chip8" /\ pc # "exited"

\* C22: after a successful initialisation the machine is RUNNING with
\* PC = 0x200, an empty call stack, V0..VF, I, DT and ST equal to 0, all 2048
\* pixels off, all 16 keys released, the 80 font bytes at 0x000..0x04F, and
\* every byte of memory outside the font and the loaded ROM equal to 0.
C22_InitialState ==
    JustInitialised =>
        /\ chip8.state = "RUNNING"
        /\ chip8.PC = \h200
        /\ chip8.stack_ptr = 0
        /\ \A r \in 0..15 : chip8.V[r] = 0
        /\ chip8.I = 0 /\ chip8.delay_timer = 0 /\ chip8.sound_timer = 0
        /\ \A p \in 0..2047 : ~chip8.display[p]
        /\ \A k \in 0..15 : ~chip8.keypad[k]
        /\ \A a \in 0..\h4F : chip8.ram[a] = CanonicalFont[a + 1]
        /\ \A a \in \h50..\hFFF :
              a \notin \h200..(\h200 + Len(rom_file) - 1) => chip8.ram[a] = 0

\* the machine after the load of a ROM of 3584 bytes, the last one at 0xFFF
C22_Witness ==
    /\ JustInitialised
    /\ Len(rom_file) = 3584
    /\ chip8.ram[\hFFF] = rom_file[3584]
    /\ chip8.ram[\hFFF] # 0
    /\ chip8.ram[\h1FF] = 0

----------------------------------------------------------------------------
(* C23 *)

\* C23: FX55 copies V0..VX to mem[I..I+X] and changes no other byte, FX65
\* copies mem[I..I+X] to V0..VX and leaves V(X+1)..VF untouched, both leave
\* I unchanged, and FX55 directly followed by FX65 with the same X leaves
\* every V register and I as they were before the pair (I..I+X inside the
\* 4096 bytes of memory).
C23_StoreLoad ==
    (JustExecuted /\ in_bounds(acc)) =>
        LET b == hist[1]
            X == chip8.inst.X
        IN /\ IsMisc(\h55) =>
                /\ \A a \in 0..(RAM_SIZE - 1) :
                      chip8.ram[a] = (IF a \in b.I..(b.I + X) THEN b.V[a - b.I]
                                      ELSE b.ram[a])
                /\ chip8.V = b.V
                /\ chip8.I = b.I
           /\ IsMisc(\h65) =>
                /\ \A r \in 0..15 :
                      chip8.V[r] = (IF r <= X THEN b.ram[b.I + r] ELSE b.V[r])
                /\ chip8.ram = b.ram
                /\ chip8.I = b.I
           /\ (IsMisc(\h65) /\ Len(hist) >= 2
                 /\ b.inst.opcode = chip8.inst.opcode - \h10) =>
                /\ chip8.V = hist[2].V
                /\ chip8.I = hist[2].I

\* F255 and then F265 with V0..V2 = 11, 22, 33 and VF = 44 (hex): the three
\* registers are in memory at I, the byte after them is not written, and
\* the registers are as before
C23_Witness ==
    /\ JustExecuted /\ in_bounds(acc) /\ Len(hist) >= 2
    /\ chip8.inst.opcode = \hF265 /\ hist[1].inst.opcode = \hF255
    /\ chip8.V[2] = \h33 /\ chip8.V[15] = \h44
    /\ chip8.ram[chip8.I + 2] = \h33 /\ hist[2].ram[chip8.I + 2] = 0
    /\ chip8.ram[chip8.I + 3] = 0
    /\ chip8.V = hist[2].V /\ chip8.I = hist[2].I

----------------------------------------------------------------------------
(* C24 *)

\* C24: after FX33, for every VX in 0..255, mem[I], mem[I+1] and mem[I+2]
\* are the hundreds, tens and ones decimal digits of VX (each in 0..9, with
\* 100 * mem[I] + 10 * mem[I+1] + mem[I+2] = VX), and VX and I are unchanged.
C24_Bcd ==
    (JustExecuted /\ IsMisc(\h33) /\ in_bounds(acc)) =>
        LET b == hist[1]
            VX == b.V[chip8.inst.X]
            I == b.I
        IN /\ chip8.ram[I] \in 0..9
           /\ chip8.ram[I + 1] \in 0..9
           /\ chip8.ram[I + 2] \in 0..9
           /\ 100 * chip8.ram[I] + 10 * chip8.ram[I + 1] + chip8.ram[I + 2] = VX
           /\ chip8.V = b.V
           /\ chip8.I = I

\* F033 with V0 = 156 and I = 0x300: the bytes 1, 5, 6 at 0x300
C24_Witness ==
    /\ JustExecuted /\ IsMisc(\h33)
    /\ hist[1].V[0] = 156 /\ chip8.inst.X = 0 /\ chip8.I = \h300
    /\ chip8.ram[\h300] = 1 /\ chip8.ram[\h301] = 5 /\ chip8.ram[\h302] = 6
    /\ hist[1].ram[\h300] = 0 /\ hist[1].ram[\h301] = 0

----------------------------------------------------------------------------
(* C25 *)

\* the executed instruction is 7XNN
IsAddConst == chip8.inst.opcode \div \h1000 = 7

\* C25: after any sequence of instruction steps and timer ticks every V
\* register, DT and ST holds a value in 0..255; 7XNN leaves
\* (VX + NN) mod 256 in VX and changes no other register, so VF is unchanged
\* for X # F even when the addition overflows; 8XY4, 8XY5, 8XY7 and 8XYE
\* leave their result modulo 256 in VX (X and Y other than F, whose flag is
\* written first).
C25_EightBitRegisters ==
    /\ \A r \in 0..15 : chip8.V[r] \in 0..255
    /\ chip8.delay_timer \in 0..255
    /\ chip8.sound_timer \in 0..255
    /\ JustExecuted =>
          LET b == hist[1]
              X == chip8.inst.X
              Y == chip8.inst.Y
          IN /\ IsAddConst =>
                  /\ chip8.V[X] = (b.V[X] + chip8.inst.NN) % 256
                  /\ \A r \in 0..15 : r # X => chip8.V[r] = b.V[r]
             /\ (X # 15 /\ Y # 15) =>
                  /\ IsAlu(4) => chip8.V[X] = (b.V[X] + b.V[Y]) % 256
                  /\ IsAlu(5) => chip8.V[X] = (b.V[X] - b.V[Y]) % 256
                  /\ IsAlu(7) => chip8.V[X] = (b.V[Y] - b.V[X]) % 256
             /\ (X # 15 /\ IsAlu(14)) => chip8.V[X] = (2 * b.V[X]) % 256

\* 7XNN overflowed with X # F: VX wrapped and VF still holds its 1
C25_Witness ==
    /\ JustExecuted /\ IsAddConst /\ chip8.inst.X # 15
    /\ hist[1].V[chip8.inst.X] + chip8.inst.NN > 255
    /\ chip8.V[chip8.inst.X] = hist[1].V[chip8.inst.X] + chip8.inst.NN - 256
    /\ hist[1].V[15] = 1 /\ chip8.V[15] = 1

----------------------------------------------------------------------------
(* C26 *)

\* C26: the keypad changes only in the input poll at the start of an
\* iteration of the main loop: no instruction step, no timer tick and no
\* arrival of an event changes it, so that all steps of a frame see the
\* keypad the poll before the first of them left.
C26_KeypadSetInPoll ==
    [][/\ chip8'.keypad # chip8.keypad => IsPoll
       /\ (IsStep \/ IsTick) => chip8'.keypad = chip8.keypad]_vars

\* in the middle of a frame, after a step: key 7 is pressed since the poll,
\* and the key-down of key 1 waits in the queue, unseen
C26_Witness ==
    /\ JustExecuted /\ pc = "emulate" /\ i >= 2
    /\ chip8.keypad[7] /\ ~chip8.keypad[1]
    /\ hist[1].keypad = chip8.keypad
    /\ sdl_events = << [type |-> "SDL_KEYDOWN", sym |-> "SDLK_1"] >>

----------------------------------------------------------------------------
(* C27 *)

\* C27: once the input poll has set the state to QUIT (window close or
\* Escape key-down), no instruction step and no timer tick is executed
\* before the main loop exits.
C27_QuitStopsMachine ==
    [][chip8.state = "QUIT" => ~(IsStep \/ IsTick)]_vars

----------------------------------------------------------------------------
(* C28 *)

\* the poll of this step consumed events up to a Space key-down
SpaceSeen ==
    /\ IsPoll
    /\ Len(sdl_events') < Len(sdl_events)
    /\ sdl_events[Len(sdl_events) - Len(sdl_events')] =
           [type |-> "SDL_KEYDOWN", sym |-> "SDLK_SPACE"]

\* what an instruction step or a timer tick may change
Machine(c) ==
    << c.PC, c.V, c.I, c.stack, c.stack_ptr, c.ram, c.display,
       c.delay_timer, c.sound_timer >>

\* C28: while the state is PAUSED no instruction is executed and no timer
\* decremented: PC, V, I, the stack, RAM, the display, DT and ST stay as they
\* are, and the state returns to RUNNING only by a Space key-down; a Space
\* key-down turns RUNNING into PAUSED and PAUSED into RUNNING, and the state
\* never leaves QUIT.
C28_Pause ==
    [][/\ chip8.state = "PAUSED" =>
            /\ ~(IsStep \/ IsTick)
            /\ Machine(chip8') = Machine(chip8)
            /\ chip8'.state = "RUNNING" => SpaceSeen
       /\ SpaceSeen =>
            /\ chip8.state = "RUNNING" => chip8'.state = "PAUSED"
            /\ chip8.state = "PAUSED" => chip8'.state = "RUNNING"
       /\ (chip8.state = "RUNNING" /\ chip8'.state = "PAUSED") => SpaceSeen
       /\ chip8.state = "QUIT" => chip8'.state = "QUIT"]_vars

\* the machine paused with its delay timer running, and main about to poll
\* again
C28_Witness ==
    /\ chip8.state = "PAUSED" /\ pc = "poll" /\ last = "handle_input"
    /\ chip8.delay_timer > 0
    /\ Len(hist) >= 1

\* what the claim compares between the two builds
Traced(c) == <<c.stack_ptr, c.stack, c.PC, c.V, c.display>>

\* C29: every instruction step of the build with DEBUG defined leaves the
\* stack pointer, the stack, PC, the registers and the display that the
\* step of the build without DEBUG leaves from the same machine (for some
\* value of rand() and some outcome of its out-of-bounds accesses).
C29_DebugObservational ==
    [][IsStep =>
        \E rnd \in rand_values(chip8), ub \in ub_values(chip8, config) :
            Traced(chip8') = Traced(emulate_instruction(chip8, config, rnd, ub))]_vars

\* a window close or an Escape key-down
IsQuitEvent(event) ==
    \/ event.type = "SDL_QUIT"
    \/ event.type = "SDL_KEYDOWN" /\ event.sym = "SDLK_ESCAPE"

\* a quit event is in the event queue
QuitPending == \E k \in 1..Len(sdl_events) : IsQuitEvent(sdl_events[k])

\* C30: once a quit event is in the event queue, whether the machine is
\* RUNNING or PAUSED, waiting for a key or spinning in a jump, the loop of
\* main ends and final_cleanup is reached and done; and the state never
\* leaves QUIT.
C30_QuitTerminates ==
    /\ QuitPending ~> (pc = "exited" /\ chip8.state = "QUIT")
    /\ [][chip8.state = "QUIT" => chip8'.state = "QUIT"]_vars

\* the program has ended after a quit that came while it waited for a key
C30_Witness ==
    /\ pc = "exited" /\ last = "final_cleanup" /\ chip8.state = "QUIT"
    /\ chip8.inst.opcode = \hF00A /\ posted > 0

====
